---- MODULE Spec2Model ----
(***************************************************************************)
(* Cityscope backend: the Post / User documents with their hooks, the      *)
(* post service (createPost, togglePostLike, togglePostDislike,            *)
(* getPostsFeed, getUserCityFeed) and the post controller's checks and     *)
(* status mapping.                                                         *)
(*                                                                         *)
(* A toggle request is three steps, one per database round trip of the     *)
(* service: the findById read, the save (the in-memory mutation by         *)
(* addLike/removeLike/addDislike/removeDislike, the pre('save') hook and    *)
(* the update sent to the store), and the findById re-read that builds     *)
(* the response.  Requests of different slots interleave between steps.    *)
(* resp is the response sent by the step just taken, if it sent one.       *)
(***************************************************************************)
EXTENDS Integers, Sequences, FiniteSets, TLC

\* ------------------------------------------------------------------ bounds
NumUsers == 2      \* user documents in the store
MaxPosts == 1      \* posts that can be created (and stored at a time)
NumReqs == 2       \* toggle requests that can be in flight at once
MaxToggles == 2    \* toggle requests that load a post, requests overlapping
MaxSeqToggles == 3 \* toggle requests that load a post, one request at a time

UserIds == 1..NumUsers
ReqIds == 1..NumReqs
\* Post identifiers a request can carry: 0 stands for a string that is not
\* a well-formed ObjectId, 1..MaxPosts are well-formed identifiers (of a
\* stored post or of none).
PostIdInputs == 0..MaxPosts

VARIABLES users, posts, req, resp, streak

vars == <<users, posts, req, resp, streak>>

\* --------------------------------------------------------------- helpers
\* Array.prototype.some(id => id.equals(userId))
some(arr, userId) == \E i \in 1..Len(arr) : arr[i] = userId

\* A filter that keeps no element
filterNothingKept(arr, userId) == << >>

\* Array.prototype.filter(id => !id.equals(userId))
filterNotEquals(arr, userId) == SelectSeq(arr, LAMBDA id : id # userId)

\* new Set(arr.map(id => id.toString()))
toSet(arr) == {arr[i] : i \in 1..Len(arr)}

\* Array.prototype.filter(id => !set.has(id.toString()))
filterNotIn(arr, set) == SelectSeq(arr, LAMBDA id : id \notin set)

PostTypeValues == {"recommend", "help", "update", "event"}

\* ------------------------------------------------------- Post document
\* postSchema.methods.isLikedBy / isDislikedBy
isLikedBy(doc, userId) == some(doc.likes, userId)

isDislikedBy(doc, userId) == some(doc.dislikes, userId)

\* addLike without the removal from dislikes
addLikeKeepDislike(doc, userId) ==
    IF ~some(doc.likes, userId)
    THEN [doc EXCEPT !.likes = Append(doc.likes, userId)]
    ELSE doc

\* postSchema.methods.addLike, up to its save()
addLike(doc, userId) ==
    LET d1 == [doc EXCEPT !.dislikes = filterNotEquals(doc.dislikes, userId)]
    IN  IF ~some(d1.likes, userId)
        THEN [d1 EXCEPT !.likes = Append(d1.likes, userId)]
        ELSE d1

\* removeLike that filters nothing out
removeLikeNoop(doc, userId) == doc

\* postSchema.methods.removeLike, up to its save()
removeLike(doc, userId) ==
    [doc EXCEPT !.likes = filterNotEquals(doc.likes, userId)]

\* addDislike without the removal from likes
addDislikeKeepLike(doc, userId) ==
    IF ~some(doc.dislikes, userId)
    THEN [doc EXCEPT !.dislikes = Append(doc.dislikes, userId)]
    ELSE doc

\* postSchema.methods.addDislike, up to its save()
addDislike(doc, userId) ==
    LET d1 == [doc EXCEPT !.likes = filterNotEquals(doc.likes, userId)]
    IN  IF ~some(d1.dislikes, userId)
        THEN [d1 EXCEPT !.dislikes = Append(d1.dislikes, userId)]
        ELSE d1

\* removeDislike that filters nothing out
removeDislikeNoop(doc, userId) == doc

\* postSchema.methods.removeDislike, up to its save()
removeDislike(doc, userId) ==
    [doc EXCEPT !.dislikes = filterNotEquals(doc.dislikes, userId)]

\* A pre('save') hook that changes nothing
preSaveNoop(doc) == doc

\* postSchema.pre('save'): both sets are taken before either list is
\* filtered.
preSave(doc) ==
    LET likeSet == toSet(doc.likes)
        dislikeSet == toSet(doc.dislikes)
    IN  [doc EXCEPT !.likes = filterNotIn(doc.likes, dislikeSet),
                    !.dislikes = filterNotIn(doc.dislikes, likeSet)]

\* postSchema.post('save'): runs after the document was written, when
\* Mongoose has already cleared the document's isNew flag.
postSaveHook(doc, us) ==
    IF doc.isNew
    THEN [us EXCEPT ![doc.author].postsCount = @ + 1]
    ELSE us

\* A variant of docUpdate: the changes are sent as $push / $pull of single
\* elements without the version condition.
docUpdateAtomicPush(stored, loaded, doc) ==
    LET pushed(old, new) == SelectSeq(new, LAMBDA id : ~some(old, id))
        kept(cur, old, new) ==
            SelectSeq(cur, LAMBDA id : some(new, id) \/ ~some(old, id))
    IN  << [stored EXCEPT
              !.likes = kept(stored.likes, loaded.likes, doc.likes)
                          \o pushed(loaded.likes, doc.likes),
              !.dislikes = kept(stored.dislikes, loaded.dislikes, doc.dislikes)
                          \o pushed(loaded.dislikes, doc.dislikes),
              !.v = stored.v + 1] >>

\* The update Document.save() sends for a loaded document whose arrays were
\* reassigned (addLike/removeLike/... and the pre('save') hook assign
\* this.likes / this.dislikes): the changed arrays are written whole, and a
\* whole-array write carries the schema's version key (the schema keeps the
\* default __v): it applies only where the stored __v is the loaded one and
\* increments it.  The result is << the stored document after the update >>,
\* or << >> for Mongoose's VersionError.
docUpdate(stored, loaded, doc) ==
    IF doc.likes = loaded.likes /\ doc.dislikes = loaded.dislikes
    THEN << stored >>
    ELSE IF stored.v # loaded.v
         THEN << >>
         ELSE << [stored EXCEPT !.likes = doc.likes,
                                !.dislikes = doc.dislikes,
                                !.v = stored.v + 1] >>

\* Document.save() of a document made with new Post(...): the document is
\* inserted and its isNew flag is cleared before the post('save') hooks run.
docInsert(doc) == [doc EXCEPT !.isNew = FALSE]

\* ------------------------------------------------------------ responses
\* The result shape {success, message, error} with the controller's status.
Res(success, message, error, status) ==
    [success |-> success, message |-> message, error |-> error, status |-> status]

NoRes == Res(FALSE, "", "", 0)

\* A query parameter that is not supplied is "" (a string) or NoAuthor (the
\* author).  User identifiers: 1..NumUsers are the stored users, other
\* numbers from 0 are well-formed identifiers of no user, MalformedUserId is
\* a string that is no ObjectId.
NoAuthor == -2

MalformedUserId == -1

\* The query string without parameters
DefaultQuery ==
    [postType |-> "", author |-> NoAuthor, city |-> "", sortBy |-> "",
     search |-> ""]

\* A response: the endpoint, the identifiers and the parameters (query
\* string or body) of the request, the result and data.post or data.posts
\* (<< >> when the result carries no data).  NoResponse is the value of resp after a step that
\* sends nothing.
Response(op, postId, userId, res, data) ==
    [op |-> op, postId |-> postId, userId |-> userId, params |-> DefaultQuery,
     res |-> res, data |-> data]

CreateResponse(postId, userId, body, res, data) ==
    [Response("create", postId, userId, res, data) EXCEPT !.params = body]

FeedResponse(op, userId, queryParams, res, data) ==
    [Response(op, 0, userId, res, data) EXCEPT !.params = queryParams]

NoResponse == Response("none", 0, 0, NoRes, << >>)

\* The status mapping without its 'Post inactive' branch
toggleStatusCodeNoInactive(error) ==
    IF error = "Post does not exist" THEN 404
    ELSE IF error = "Invalid ObjectId" THEN 400
    ELSE 500

\* handleTogglePostLike / handleTogglePostDislike: the status of a failed
\* service result
toggleStatusCode(error) ==
    IF error = "Post does not exist" THEN 404
    ELSE IF error = "Invalid ObjectId" THEN 400
    ELSE IF error = "Post inactive" THEN 404
    ELSE 500

\* String.prototype.includes('Invalid') over the error strings of createPost
includesInvalid(error) ==
    error \in {"Invalid post type", "Invalid ObjectId",
               "Invalid image URL format",
               "Invalid image URL format, Path city is required."}

\* The status mapping without its 'Validation failed' condition
createStatusCodeNoValidation(res) ==
    IF res.error = "User does not exist" THEN 404
    ELSE IF res.error = "Account status inactive" THEN 403
    ELSE IF includesInvalid(res.error) THEN 400
    ELSE 500

\* handleCreatePost: the status of a failed service result
createStatusCode(res) ==
    IF res.error = "User does not exist" THEN 404
    ELSE IF res.error = "Account status inactive" THEN 403
    ELSE IF includesInvalid(res.error) \/ res.message = "Validation failed"
    THEN 400
    ELSE 500

\* ------------------------------------------------------------------ Init
IdleReq ==
    [pc |-> "idle", kind |-> "like", postId |-> 0, userId |-> 0,
     doc |-> << >>, flag |-> FALSE]

NoStreak ==
    [postId |-> 0, userId |-> 0, count |-> 0, likedBefore |-> FALSE,
     dislikedBefore |-> FALSE]

Init ==
    /\ users = [u \in UserIds |->
                  [isActive |-> TRUE, postsCount |-> 0,
                   city |-> IF u = 1 THEN "Austin" ELSE "Denver"]]
    /\ posts = << >>
    /\ req = [r \in ReqIds |-> IdleReq]
    /\ resp = NoResponse
    /\ streak = NoStreak

\* ------------------------------------------------------------ createPost
\* The image validator's urlRegex over the URLs of the model
urlRegexTest(url) == url = "https://res.cloudinary.com/a.jpg"

\* uploadImageToCloudinary: << >> for a failed upload, else << secureUrl >>;
\* an image file is stored in the format it was uploaded in.
uploadImageToCloudinary(file) ==
    IF file = "rejected" THEN << >>
    ELSE IF file = "jpg" THEN << "https://res.cloudinary.com/a.jpg" >>
    ELSE << "https://res.cloudinary.com/a.bmp" >>

\* The messages of the ValidationError of save(), joined; "" for a valid
\* document.  (content and postType were checked by createPost before.)
validationErrors(doc) ==
    LET imageError == doc.image # "" /\ ~urlRegexTest(doc.image)
        cityError == doc.city = ""
    IN  IF imageError /\ cityError
        THEN "Invalid image URL format, Path city is required."
        ELSE IF imageError THEN "Invalid image URL format"
        ELSE IF cityError THEN "Path city is required."
        ELSE ""

\* createPost (post.service.ts): the result and the store after the call.
\* postData.contentLen is the length of the trimmed content, postData.keyword
\* the word of the search vocabulary the content contains.
createPost(userId, postData, ps, us) ==
    LET fail(message, error) ==
            [res |-> Res(FALSE, message, error, 0), posts |-> ps, users |-> us]
    IN  IF userId = MalformedUserId
        THEN fail("Internal server error", "Something went wrong")
        ELSE IF userId \notin DOMAIN us
        THEN fail("User not found", "User does not exist")
        ELSE IF ~us[userId].isActive
        THEN fail("Account is deactivated", "Account status inactive")
        ELSE IF postData.contentLen = 0
        THEN fail("Post content is required", "Missing post content")
        ELSE IF postData.postType \notin PostTypeValues
        THEN fail("Valid post type is required", "Invalid post type")
        ELSE IF postData.contentLen > 280
        THEN fail("Post content cannot exceed 280 characters", "Content too long")
        ELSE LET newPost == [author |-> userId,
                             contentLen |-> postData.contentLen,
                             keyword |-> postData.keyword,
                             postType |-> postData.postType,
                             image |-> postData.image,
                             city |-> postData.city,
                             likes |-> << >>, dislikes |-> << >>,
                             isActive |-> TRUE, v |-> 0, isNew |-> TRUE]
             IN  IF validationErrors(newPost) # ""
                 THEN fail("Validation failed", validationErrors(newPost))
                 ELSE LET savedPost == docInsert(newPost)
                      IN  [res |-> Res(TRUE, "Post created successfully", "", 0),
                           posts |-> Append(ps, savedPost),
                           users |-> postSaveHook(savedPost, us)]

\* handleCreatePost without the check of the content length
createRejectionAnyLength(body) ==
    IF body.contentLen = 0
    THEN << Res(FALSE, "Post content is required", "Missing post content", 400) >>
    ELSE IF body.postType \notin PostTypeValues
    THEN << Res(FALSE,
                "Valid post type is required (recommend, help, update, event)",
                "Invalid post type", 400) >>
    ELSE << >>

\* handleCreatePost: the checks on the body before the upload and the
\* service call: << >> or << the 400 result >>
createRejection(body) ==
    IF body.contentLen = 0
    THEN << Res(FALSE, "Post content is required", "Missing post content", 400) >>
    ELSE IF body.postType \notin PostTypeValues
    THEN << Res(FALSE,
                "Valid post type is required (recommend, help, update, event)",
                "Invalid post type", 400) >>
    ELSE IF body.contentLen > 280
    THEN << Res(FALSE, "Post content cannot exceed 280 characters",
                "Content too long", 400) >>
    ELSE << >>

\* handleCreatePost (post.controller.ts).  body.file is the uploaded image
\* file: "none", or its kind.
handleCreatePost(userId, body) ==
    /\ Len(posts) < MaxPosts
    /\ LET rejection == createRejection(body)
           upload == IF body.file = "none" THEN << "" >>
                     ELSE uploadImageToCloudinary(body.file)
           postData == [contentLen |-> body.contentLen,
                        keyword |-> body.keyword,
                        postType |-> body.postType,
                        image |-> upload[1],
                        city |-> body.city]
           result == createPost(userId, postData, posts, users)
           ok == result.res.success
       IN  IF rejection # << >>
           THEN /\ resp' = CreateResponse(0, userId, body, rejection[1], << >>)
                /\ UNCHANGED <<users, posts>>
           ELSE IF upload = << >>
           THEN /\ resp' = CreateResponse(0, userId, body,
                               Res(FALSE, "Failed to upload image",
                                   "Upload failed", 400), << >>)
                /\ UNCHANGED <<users, posts>>
           ELSE /\ resp' = CreateResponse(
                               IF ok THEN Len(result.posts) ELSE 0, userId, body,
                               [result.res EXCEPT !.status =
                                   IF ok THEN 201
                                   ELSE createStatusCode(result.res)],
                               IF ok THEN << result.posts[Len(result.posts)] >>
                               ELSE << >>)
                /\ posts' = result.posts
                /\ users' = result.users
    /\ UNCHANGED <<req, streak>>

\* ------------------------------------------------------------- toggles
\* The toggle requests that have loaded a post so far: each successful save
\* raised the post's version by one, the others are in flight or failed in
\* their save.
RECURSIVE sumV(_)
sumV(ps) == IF ps = << >> THEN 0 ELSE ps[1].v + sumV(Tail(ps))

nToggles == sumV(posts) + Cardinality({r \in ReqIds : req[r].pc # "idle"})

\* The slot a new request takes: the lowest free one.
FreeSlot(r) ==
    /\ req[r].pc = "idle"
    /\ \A r2 \in ReqIds : req[r2].pc = "idle" => r <= r2

\* togglePostLike / togglePostDislike up to the findById read and the two
\* checks on its result; the controller maps a failure to its status.
ToggleFind(r, kind, postId, userId, limit) ==
    /\ FreeSlot(r)
    /\ LET failed(message, error) ==
               /\ resp' = Response(kind, postId, userId,
                                   Res(FALSE, message, error,
                                       toggleStatusCode(error)), << >>)
               /\ UNCHANGED req
       IN  IF postId = 0
           THEN failed("Invalid post ID format", "Invalid ObjectId")
           ELSE IF postId > Len(posts)
           THEN failed("Post not found", "Post does not exist")
           ELSE IF ~posts[postId].isActive
           THEN failed(IF kind = "like" THEN "Cannot like inactive post"
                       ELSE "Cannot dislike inactive post", "Post inactive")
           ELSE /\ nToggles < limit
                /\ req' = [req EXCEPT ![r] =
                       [IdleReq EXCEPT !.pc = "loaded", !.kind = kind,
                                       !.postId = postId, !.userId = userId,
                                       !.doc = << posts[postId] >>]]
                /\ resp' = NoResponse
    /\ UNCHANGED <<users, posts, streak>>

\* The document a toggle request saves: isLikedBy / isDislikedBy decides
\* between the remove and the add method, and save() runs pre('save').
toggled(kind, doc, userId) ==
    IF kind = "like"
    THEN IF isLikedBy(doc, userId) THEN removeLike(doc, userId)
         ELSE addLike(doc, userId)
    ELSE IF isDislikedBy(doc, userId) THEN removeDislike(doc, userId)
         ELSE addDislike(doc, userId)

\* The streak of successful togglePostLike calls of one user on one post
\* with no other write to that post in between.
streakAfter(kind, postId, userId) ==
    IF kind = "like"
    THEN IF streak.postId = postId /\ streak.userId = userId /\ streak.count > 0
         THEN [streak EXCEPT !.count = @ + 1]
         ELSE [postId |-> postId, userId |-> userId, count |-> 1,
               likedBefore |-> isLikedBy(posts[postId], userId),
               dislikedBefore |-> isDislikedBy(posts[postId], userId)]
    ELSE IF streak.postId = postId THEN NoStreak ELSE streak

\* The save of a toggle request: addLike/removeLike/addDislike/removeDislike
\* on the loaded document, pre('save'), the update, post('save').  A failed
\* save is caught by the service and answered with status 500.
ToggleSave(r) ==
    /\ req[r].pc = "loaded"
    /\ LET q == req[r]
           loaded == q.doc[1]
           flag == IF q.kind = "like" THEN isLikedBy(loaded, q.userId)
                   ELSE isDislikedBy(loaded, q.userId)
           doc == preSave(toggled(q.kind, loaded, q.userId))
           out == docUpdate(posts[q.postId], loaded, doc)
       IN  IF out = << >>
           THEN /\ req' = [req EXCEPT ![r] = IdleReq]
                /\ resp' = Response(q.kind, q.postId, q.userId,
                                    Res(FALSE, "Internal server error",
                                        "Something went wrong",
                                        toggleStatusCode("Something went wrong")),
                                    << >>)
                /\ UNCHANGED <<users, posts, streak>>
           ELSE /\ posts' = [posts EXCEPT ![q.postId] = out[1]]
                /\ users' = postSaveHook(doc, users)
                /\ req' = [req EXCEPT ![r].pc = "saved", ![r].flag = flag]
                /\ streak' = streakAfter(q.kind, q.postId, q.userId)
                /\ resp' = NoResponse

\* The re-read of the post and the success result of a toggle request.
ToggleRespond(r) ==
    /\ req[r].pc = "saved"
    /\ LET q == req[r]
           message ==
               IF q.kind = "like"
               THEN IF q.flag THEN "Post unliked successfully"
                    ELSE "Post liked successfully"
               ELSE IF q.flag THEN "Post undisliked successfully"
                    ELSE "Post disliked successfully"
       IN  /\ resp' = Response(q.kind, q.postId, q.userId,
                               Res(TRUE, message, "", 200),
                               << posts[q.postId] >>)
           /\ req' = [req EXCEPT ![r] = IdleReq]
    /\ UNCHANGED <<users, posts, streak>>

\* Soft removal of a post: isActive is set to false.
deactivatePost(postId) ==
    /\ postId \in 1..Len(posts)
    /\ posts[postId].isActive
    /\ posts' = [posts EXCEPT ![postId].isActive = FALSE]
    /\ streak' = IF streak.postId = postId THEN NoStreak ELSE streak
    /\ resp' = NoResponse
    /\ UNCHANGED <<users, req>>

\* Document.save() of a loaded post whose lists were assigned: pre('save'),
\* the update, post('save').  req[r].doc is << the document as loaded, the
\* document in memory >>.
saveDocument(r) ==
    /\ req[r].pc = "assigned"
    /\ LET q == req[r]
           doc == preSave(q.doc[2])
           out == docUpdate(posts[q.postId], q.doc[1], doc)
       IN  IF out = << >>
           THEN /\ req' = [req EXCEPT ![r] = IdleReq]
                /\ UNCHANGED <<users, posts>>
           ELSE /\ posts' = [posts EXCEPT ![q.postId] = out[1]]
                /\ users' = postSaveHook(doc, users)
                /\ req' = [req EXCEPT ![r].pc = "persisted"]
    /\ resp' = NoResponse
    /\ UNCHANGED streak

\* postSchema.post('findOneAndDelete'): the $inc of -1 is an update, on
\* which the schema's min: 0 of postsCount is not enforced.
postDeleteHook(doc, us) ==
    [us EXCEPT ![doc.author].postsCount = @ - 1]

\* Post.findOneAndDelete of a stored post, with its post hook.  The posts
\* after the removed one move up by one place.
findOneAndDelete(postId, limit) ==
    /\ postId \in 1..Len(posts)
    /\ users[posts[postId].author].postsCount > -limit
    /\ posts' = [k \in 1..(Len(posts) - 1) |->
                    IF k < postId THEN posts[k] ELSE posts[k + 1]]
    /\ users' = postDeleteHook(posts[postId], users)
    /\ resp' = NoResponse
    /\ UNCHANGED <<req, streak>>

\* ----------------------------------------------------------------- feeds
\* String.prototype.trim over the strings of the model
trim(s) == IF s = " " THEN "" ELSE s

\* The i option of $regex over the strings of the model
toLowerCase(s) == IF s = "CAFE" THEN "cafe" ELSE s

\* A $regex pattern the server refuses to compile
invalidRegex(pattern) == pattern = "("

\* { $regex: pattern, $options: 'i' } on the content of a document, which
\* the model keeps as the one word of the search vocabulary it contains
regexMatches(pattern, doc) == toLowerCase(pattern) = toLowerCase(doc.keyword)

\* The filter object of getPostsFeed; "" / NoAuthor: the key is not set.
buildFilter(queryParams) ==
    [isActive |-> TRUE,
     city |-> trim(queryParams.city),
     postType |-> IF queryParams.postType \in PostTypeValues
                  THEN queryParams.postType ELSE "",
     author |-> queryParams.author,
     content |-> trim(queryParams.search)]

\* matchesFilter without the isActive key
matchesFilterAnyActive(doc, filter) ==
    /\ filter.city # "" => doc.city = filter.city
    /\ filter.postType # "" => doc.postType = filter.postType
    /\ filter.author # NoAuthor => doc.author = filter.author
    /\ filter.content # "" => regexMatches(filter.content, doc)

\* Post.find(filter): whether a stored document matches
matchesFilter(doc, filter) ==
    /\ doc.isActive = filter.isActive
    /\ filter.city # "" => doc.city = filter.city
    /\ filter.postType # "" => doc.postType = filter.postType
    /\ filter.author # NoAuthor => doc.author = filter.author
    /\ filter.content # "" => regexMatches(filter.content, doc)

\* The key of a descending sort on the array field likes: MongoDB compares
\* arrays by their greatest element (ObjectIds in creation order), and an
\* empty array sorts below every value.
likesSortKey(doc) ==
    IF doc.likes = << >> THEN 0
    ELSE CHOOSE m \in toSet(doc.likes) : \A u \in toSet(doc.likes) : u <= m

\* The sort object without its 'oldest' branch
sortsBeforeNoOldest(sortBy, ps, i, j) ==
    IF sortBy = "mostLiked"
    THEN \/ likesSortKey(ps[i]) > likesSortKey(ps[j])
         \/ likesSortKey(ps[i]) = likesSortKey(ps[j]) /\ i > j
    ELSE i > j

\* The sort object of getPostsFeed: whether post i comes before post j.
\* Posts are numbered in creation order, so createdAt orders as the number.
sortsBefore(sortBy, ps, i, j) ==
    IF sortBy = "oldest" THEN i < j
    ELSE IF sortBy = "mostLiked"
    THEN \/ likesSortKey(ps[i]) > likesSortKey(ps[j])
         \/ likesSortKey(ps[i]) = likesSortKey(ps[j]) /\ i > j
    ELSE i > j

\* .sort(sort) of the matching posts
sorted(ids, sortBy, ps) ==
    [k \in 1..Cardinality(ids) |->
        CHOOSE i \in ids :
            Cardinality({j \in ids : sortsBefore(sortBy, ps, j, i)}) = k - 1]

\* Math.ceil(a / b) for a >= 0 and b > 0
ceil(a, b) == IF a % b = 0 THEN a \div b ELSE (a \div b) + 1

\* cursor.skip(skip).limit(limit) on a result
skipLimit(all, skip, limit) ==
    SubSeq(all, skip + 1,
           IF skip + limit < Len(all) THEN skip + limit ELSE Len(all))

\* getPaginatedPosts skipping page * limit documents
getPaginatedPostsSkipPage(filter, options, ps) ==
    LET page == options.page
        limit == options.limit
        skip == page * limit
        ids == {i \in 1..Len(ps) : matchesFilter(ps[i], filter)}
        totalPosts == Cardinality(ids)
        totalPages == ceil(totalPosts, limit)
    IN  [posts |-> skipLimit(sorted(ids, options.sortBy, ps), skip, limit),
         pagination |-> [currentPage |-> page,
                         totalPages |-> totalPages,
                         totalPosts |-> totalPosts,
                         hasNext |-> page < totalPages,
                         hasPrev |-> page > 1]]

\* getPaginatedPosts with hasNext: page <= totalPages
getPaginatedPostsNextOnLast(filter, options, ps) ==
    LET page == options.page
        limit == options.limit
        skip == (page - 1) * limit
        ids == {i \in 1..Len(ps) : matchesFilter(ps[i], filter)}
        totalPosts == Cardinality(ids)
        totalPages == ceil(totalPosts, limit)
    IN  [posts |-> skipLimit(sorted(ids, options.sortBy, ps), skip, limit),
         pagination |-> [currentPage |-> page,
                         totalPages |-> totalPages,
                         totalPosts |-> totalPosts,
                         hasNext |-> page <= totalPages,
                         hasPrev |-> page > 1]]

\* Post.getPaginatedPosts (models/Post.ts): the page of the documents that
\* match filter, in the order of sortBy, and the pagination record.  The
\* posts are given by their numbers.
getPaginatedPosts(filter, options, ps) ==
    LET page == options.page
        limit == options.limit
        skip == (page - 1) * limit
        ids == {i \in 1..Len(ps) : matchesFilter(ps[i], filter)}
        totalPosts == Cardinality(ids)
        totalPages == ceil(totalPosts, limit)
    IN  [posts |-> skipLimit(sorted(ids, options.sortBy, ps), skip, limit),
         pagination |-> [currentPage |-> page,
                         totalPages |-> totalPages,
                         totalPosts |-> totalPosts,
                         hasNext |-> page < totalPages,
                         hasPrev |-> page > 1]]

\* getPostsFeed without its catch block: an exception leaves the caller
\* without a result.
getPostsFeedUncaught(queryParams, ps, findFails) ==
    IF \/ queryParams.author = MalformedUserId
       \/ invalidRegex(trim(queryParams.search))
       \/ findFails
    THEN [res |-> NoRes, data |-> << >>]
    ELSE LET filter == buildFilter(queryParams)
             ids == {i \in 1..Len(ps) : matchesFilter(ps[i], filter)}
         IN  [res |-> Res(TRUE, "Posts retrieved successfully", "", 0),
              data |-> << sorted(ids, queryParams.sortBy, ps) >>]

\* getPostsFeed (post.service.ts): the result and data.posts (the posts by
\* their numbers).  findFails: the Post.find query is rejected by the store.
getPostsFeed(queryParams, ps, findFails) ==
    IF \/ queryParams.author = MalformedUserId
       \/ invalidRegex(trim(queryParams.search))
       \/ findFails
    THEN [res |-> Res(FALSE, "Internal server error", "Something went wrong", 0),
          data |-> << >>]
    ELSE LET filter == buildFilter(queryParams)
             ids == {i \in 1..Len(ps) : matchesFilter(ps[i], filter)}
         IN  [res |-> Res(TRUE, "Posts retrieved successfully", "", 0),
              data |-> << sorted(ids, queryParams.sortBy, ps) >>]

\* getUserCityFeed without its check of user.isActive
getUserCityFeedAnyStatus(userId, queryParams, ps, us, findFails) ==
    LET fail(message, error) ==
            [res |-> Res(FALSE, message, error, 0), data |-> << >>]
    IN  IF userId = MalformedUserId
        THEN fail("Invalid user ID format", "Invalid ObjectId")
        ELSE IF userId \notin DOMAIN us
        THEN fail("User not found", "User does not exist")
        ELSE LET cityFilter == IF queryParams.city # "" THEN queryParams.city
                               ELSE us[userId].city
             IN  getPostsFeed([queryParams EXCEPT !.city = cityFilter],
                              ps, findFails)

\* getUserCityFeed (post.service.ts)
getUserCityFeed(userId, queryParams, ps, us, findFails) ==
    LET fail(message, error) ==
            [res |-> Res(FALSE, message, error, 0), data |-> << >>]
    IN  IF userId = MalformedUserId
        THEN fail("Invalid user ID format", "Invalid ObjectId")
        ELSE IF userId \notin DOMAIN us
        THEN fail("User not found", "User does not exist")
        ELSE IF ~us[userId].isActive
        THEN fail("Account is deactivated", "Account status inactive")
        ELSE LET cityFilter == IF queryParams.city # "" THEN queryParams.city
                               ELSE us[userId].city
             IN  getPostsFeed([queryParams EXCEPT !.city = cityFilter],
                              ps, findFails)

SortOptions == {"newest", "oldest", "mostLiked"}

\* The checks both feed handlers make on the query before the service call:
\* << >> or << the 400 result >>
feedQueryRejection(queryParams) ==
    IF queryParams.postType # "" /\ queryParams.postType \notin PostTypeValues
    THEN << Res(FALSE, "Invalid post type filter",
                "Post type must be one of: recommend, help, update, event", 400) >>
    ELSE IF queryParams.sortBy # "" /\ queryParams.sortBy \notin SortOptions
    THEN << Res(FALSE, "Invalid sort option",
                "Sort by must be one of: newest, oldest, mostLiked", 400) >>
    ELSE << >>

\* handleGetPostsFeed (post.controller.ts)
handleGetPostsFeed(queryParams, findFails) ==
    /\ LET rejection == feedQueryRejection(queryParams)
           result == getPostsFeed(queryParams, posts, findFails)
       IN  resp' = IF rejection # << >>
                   THEN FeedResponse("feed", 0, queryParams, rejection[1], << >>)
                   ELSE FeedResponse("feed", 0, queryParams,
                           [result.res EXCEPT !.status =
                               IF result.res.success THEN 200 ELSE 500],
                           result.data)
    /\ UNCHANGED <<users, posts, req, streak>>

\* handleGetUserCityFeed: the status of a failed service result
homeFeedStatusCode(error) ==
    IF error = "User does not exist" THEN 404
    ELSE IF error = "Account status inactive" THEN 403
    ELSE IF error = "Invalid ObjectId" THEN 400
    ELSE 500

\* handleGetUserCityFeed (post.controller.ts): the query it builds has no
\* author and the default sortBy 'newest'.
handleGetUserCityFeed(userId, queryParams, findFails) ==
    /\ LET q == [queryParams EXCEPT
                    !.author = NoAuthor,
                    !.sortBy = IF queryParams.sortBy = "" THEN "newest"
                               ELSE queryParams.sortBy]
           rejection == feedQueryRejection(q)
           result == getUserCityFeed(userId, q, posts, users, findFails)
       IN  resp' = IF rejection # << >>
                   THEN FeedResponse("homeFeed", userId, queryParams,
                                     rejection[1], << >>)
                   ELSE FeedResponse("homeFeed", userId, queryParams,
                           [result.res EXCEPT !.status =
                               IF result.res.success THEN 200
                               ELSE homeFeedStatusCode(result.res.error)],
                           result.data)
    /\ UNCHANGED <<users, posts, req, streak>>

\* ------------------------------------------------------- specifications
\* Inputs of the create-post endpoint: the caller is a stored user or the
\* well-formed identifier of none.
AuthorInputs == {0, 1}

ContentLens == {280}

PostTypeInputs == {"help"}

CityInputs == {"Austin"}

Create ==
    \E userId \in AuthorInputs, contentLen \in ContentLens,
       postType \in PostTypeInputs, city \in CityInputs :
        handleCreatePost(userId, [contentLen |-> contentLen, keyword |-> "cafe",
                                  postType |-> postType, file |-> "none",
                                  city |-> city])

Find(limit) ==
    \E r \in ReqIds, kind \in {"like", "dislike"},
       postId \in PostIdInputs, userId \in UserIds :
        ToggleFind(r, kind, postId, userId, limit)

Save == \E r \in ReqIds : ToggleSave(r)

Respond == \E r \in ReqIds : ToggleRespond(r)

Deactivate == \E postId \in 1..MaxPosts : deactivatePost(postId)

ConcFind == Find(MaxToggles)

\* Overlapping toggle requests on the posts created so far.
Next == Create \/ ConcFind \/ Save \/ Respond

Spec == Init /\ [][Next]_vars

\* One request at a time: a toggle request starts only when no other is in
\* flight; posts are soft-removed at any time.
NoneInFlight == \A r \in ReqIds : req[r].pc = "idle"

SeqFind == NoneInFlight /\ Find(MaxSeqToggles)

SeqNext == Create \/ SeqFind \/ Save \/ Respond \/ Deactivate

SeqSpec == Init /\ [][SeqNext]_vars

\* The create-post endpoint with any body, and hard deletion of posts.  The
\* last user's account is deactivated.
MaxDeletes == 2    \* hard deletions of posts of one author

CreateInit ==
    /\ users = [u \in UserIds |->
                  [isActive |-> u # NumUsers, postsCount |-> 0,
                   city |-> IF u = 1 THEN "Austin" ELSE "Denver"]]
    /\ posts = << >>
    /\ req = [r \in ReqIds |-> IdleReq]
    /\ resp = NoResponse
    /\ streak = NoStreak

ValidBody ==
    [contentLen |-> 280, keyword |-> "cafe", postType |-> "help",
     file |-> "none", city |-> "Austin"]

\* The bodies of the create-post endpoint: content that trims to nothing, to
\* 280 and to 281 characters, with a known or unknown type, with or without
\* a city, with no image file or one Cloudinary stores as .bmp; and the valid
\* body with a missing type, a .jpg file, a file whose upload fails.
CreateBodies ==
    [contentLen : {0, 280, 281}, keyword : {"cafe"},
     postType : {"help", "bogus"}, file : {"none", "bmp"},
     city : {"", "Austin"}]
    \cup {[ValidBody EXCEPT !.postType = ""],
          [ValidBody EXCEPT !.file = "jpg"],
          [ValidBody EXCEPT !.file = "rejected"]}

CreateUserInputs == {MalformedUserId, 0} \cup UserIds

CreateAny ==
    \E userId \in CreateUserInputs, body \in CreateBodies :
        /\ userId = MalformedUserId => body = ValidBody
        /\ handleCreatePost(userId, body)

Delete == \E postId \in 1..MaxPosts : findOneAndDelete(postId, MaxDeletes)

CreateNext == CreateAny \/ Delete

CreateSpec == CreateInit /\ [][CreateNext]_vars

\* Feed queries over a store of NumFeedPosts posts.  Post i was created i-th;
\* its author, type and content go by its number; it is of either city,
\* active or soft-removed, and liked by nobody, by the last user or by every
\* user.  User 1 has signed up and not set a city yet
\* (authenticateUser stores city ''), the others have.
NumFeedPosts == 2

PlaceChoices == [city : {"Austin", "Denver"}, isActive : BOOLEAN]

LikeChoices == {<< >>, << NumUsers >>, [i \in UserIds |-> i]}

feedPost(i, city, isActive, likes) ==
    [author |-> ((i - 1) % NumUsers) + 1,
     contentLen |-> 280,
     keyword |-> IF i % 2 = 1 THEN "cafe" ELSE "road",
     postType |-> IF i % 2 = 1 THEN "help" ELSE "event",
     image |-> "",
     city |-> city,
     likes |-> likes, dislikes |-> << >>,
     isActive |-> isActive, v |-> Len(likes), isNew |-> FALSE]

FeedStores ==
    {[i \in 1..NumFeedPosts |->
         feedPost(i, place[i].city, place[i].isActive, likes[i])] :
        place \in [1..NumFeedPosts -> PlaceChoices],
        likes \in [1..NumFeedPosts -> LikeChoices]}

FeedInit ==
    /\ users = [u \in UserIds |->
                  [isActive |-> TRUE, postsCount |-> 0,
                   city |-> IF u = 1 THEN "" ELSE IF u = 2 THEN "Austin"
                            ELSE "Denver"]]
    /\ posts \in FeedStores
    /\ req = [r \in ReqIds |-> IdleReq]
    /\ resp = NoResponse
    /\ streak = NoStreak

\* The query strings of the feed endpoints: every combination of a supplied
\* and an absent value of each parameter, and the query without parameters
\* with one parameter set to a further value.
FeedQueries ==
    [postType : {"", "help"},
     author : {NoAuthor, 1},
     city : {"", "Austin"},
     sortBy : {"", "mostLiked"},
     search : {"", "CAFE"}]
    \cup {[DefaultQuery EXCEPT !.sortBy = sortBy] :
             sortBy \in {"newest", "oldest", "bogus"}}
    \cup {[DefaultQuery EXCEPT !.postType = "bogus"],
          [DefaultQuery EXCEPT !.author = MalformedUserId],
          [DefaultQuery EXCEPT !.city = " "],
          [DefaultQuery EXCEPT !.search = "("]}

\* handleGetUserCityFeed reads no author from the query string.
HomeQueries == {queryParams \in FeedQueries : queryParams.author = NoAuthor}

FeedUserInputs == {MalformedUserId, 0} \cup UserIds

GetPostsFeed ==
    \E queryParams \in FeedQueries, findFails \in BOOLEAN :
        /\ findFails => queryParams = DefaultQuery
        /\ handleGetPostsFeed(queryParams, findFails)

GetUserCityFeed ==
    \E userId \in FeedUserInputs, queryParams \in HomeQueries,
       findFails \in BOOLEAN :
        /\ (findFails \/ userId \notin UserIds) => queryParams = DefaultQuery
        /\ handleGetUserCityFeed(userId, queryParams, findFails)

\* The feed endpoints only read: a behaviour is one query on a store.
FirstQuery == resp = NoResponse

FeedNext == FirstQuery /\ (GetPostsFeed \/ GetUserCityFeed)

FeedSpec == FeedInit /\ [][FeedNext]_vars

\* save() of one post document whose likes and dislikes lists in memory are
\* any two lists of at most MaxListLen users.
MaxListLen == 2

UserLists == UNION {[1..n -> UserIds] : n \in 0..MaxListLen}

SaveInit ==
    /\ users = [u \in UserIds |->
                  [isActive |-> TRUE, postsCount |-> 0,
                   city |-> IF u = 1 THEN "Austin" ELSE "Denver"]]
    /\ \E stored \in LikeChoices, likes \in UserLists, dislikes \in UserLists :
          LET loaded == feedPost(1, "Austin", TRUE, stored)
          IN  /\ posts = << loaded >>
              /\ req = [r \in ReqIds |->
                          IF r = 1
                          THEN [IdleReq EXCEPT
                                  !.pc = "assigned", !.postId = 1,
                                  !.doc = << loaded,
                                             [loaded EXCEPT
                                                !.likes = likes,
                                                !.dislikes = dislikes] >>]
                          ELSE IdleReq]
    /\ resp = NoResponse
    /\ streak = NoStreak

SaveNext == \E r \in ReqIds : saveDocument(r)

SaveSpec == SaveInit /\ [][SaveNext]_vars

\* The five service operations, called with requests that pass the
\* controllers' own checks: createPost by any caller, toggles of user 1 that
\* overlap, and feed queries, with a malformed author and with a failing
\* store, while no toggle is in flight.
MaxSvcToggles == 2

SvcBodies ==
    {ValidBody, [ValidBody EXCEPT !.city = ""], [ValidBody EXCEPT !.file = "bmp"]}

SvcCreate ==
    \E userId \in CreateUserInputs, body \in SvcBodies :
        handleCreatePost(userId, body)

SvcFind ==
    \E r \in ReqIds, kind \in {"like", "dislike"}, postId \in PostIdInputs :
        ToggleFind(r, kind, postId, 1, MaxSvcToggles)

SvcFeed ==
    /\ NoneInFlight
    /\ \E findFails \in BOOLEAN :
          \/ \E queryParams \in {DefaultQuery,
                                 [DefaultQuery EXCEPT !.author = MalformedUserId]} :
                handleGetPostsFeed(queryParams, findFails)
          \/ \E userId \in FeedUserInputs :
                handleGetUserCityFeed(userId, DefaultQuery, findFails)

SvcNext == SvcCreate \/ SvcFind \/ Save \/ Respond \/ SvcFeed

SvcSpec == CreateInit /\ [][SvcNext]_vars

\* ------------------------------------- specification: answers in flight
\* Toggle requests of the users on one stored post; a request may start
\* while another has saved and not yet answered.
MaxRaceToggles == 3

RaceInit ==
    /\ users = [u \in UserIds |->
                  [isActive |-> TRUE, postsCount |-> IF u = 1 THEN 1 ELSE 0,
                   city |-> IF u = 1 THEN "Austin" ELSE "Denver"]]
    /\ posts = << feedPost(1, "Austin", TRUE, << >>) >>
    /\ req = [r \in ReqIds |-> IdleReq]
    /\ resp = NoResponse
    /\ streak = NoStreak

RaceFind ==
    \E r \in ReqIds, kind \in {"like", "dislike"}, userId \in 1..2 :
        ToggleFind(r, kind, 1, userId, MaxRaceToggles)

RaceNext == RaceFind \/ Save \/ Respond

RaceSpec == RaceInit /\ [][RaceNext]_vars

\* ---------------------------------------------- specification: replies
\* addReply and removeReply called one after the other on one post.
MaxReplies == 2
MaxReplyId == 3

\* The identifiers of reply subdocuments.
ReplyIds == 1..MaxReplyId

replyIdsOf(doc) == {doc.replies[k].id : k \in 1..Len(doc.replies)}

\* An identifier for a pushed subdocument, drawn from all identifiers
anyObjectIds(doc) == ReplyIds

\* The identifiers Mongoose can give a pushed subdocument: a new ObjectId,
\* which no reply of the document holds.
newObjectIds(doc) == ReplyIds \ replyIdsOf(doc)

\* replySchema: the messages of the validators that fail for a reply
\* (contentLen is the length of the trimmed content).
replyValidationErrors(reply) ==
    (IF reply.contentLen = 0 THEN << "Reply content is required" >>
     ELSE IF reply.contentLen > 280
          THEN << "Reply cannot exceed 280 characters" >>
          ELSE << >>)
    \o (IF reply.author = NoAuthor THEN << "Reply author is required" >>
        ELSE << >>)

\* postSchema.methods.addReply: << the saved document >>, or << >> when
\* save() rejects with a ValidationError.  id is the _id Mongoose gives the
\* pushed subdocument.
addReply(doc, reply, id) ==
    LET pushed == [doc EXCEPT
                     !.replies = Append(@, [id |-> id,
                                            contentLen |-> reply.contentLen,
                                            author |-> reply.author])]
    IN  IF replyValidationErrors(reply) # << >>
        THEN << >>
        ELSE << preSave(pushed) >>

\* removeReply keeping the replies that match
removeReplyKeepMatch(doc, replyId) ==
    LET filtered == SelectSeq(doc.replies, LAMBDA reply : reply.id = replyId)
    IN  << [preSave(doc) EXCEPT !.replies = filtered] >>

\* postSchema.methods.removeReply: << the saved document >>.
removeReply(doc, replyId) ==
    LET filtered == SelectSeq(doc.replies, LAMBDA reply : reply.id # replyId)
    IN  << [preSave(doc) EXCEPT !.replies = filtered] >>

\* The calls made so far end with addReply (count 1) that returned the reply
\* replyId, or with that call and removeReply of that reply (count 2).
NoCalls == [replyId |-> 0, count |-> 0]

ReplyInit ==
    /\ users = [u \in UserIds |->
                  [isActive |-> TRUE, postsCount |-> 1, city |-> "Austin"]]
    /\ posts = << [replies |-> << >>] @@ feedPost(1, "Austin", TRUE, << >>) >>
    /\ req = [r \in ReqIds |-> IdleReq]
    /\ resp = NoResponse
    /\ streak = NoCalls

ReplyInputs == [contentLen : {0, 280, 281}, author : {NoAuthor, 1, 2}]

AddReply ==
    /\ Len(posts[1].replies) < MaxReplies
    /\ \E reply \in ReplyInputs, id \in newObjectIds(posts[1]) :
          LET out == addReply(posts[1], reply, id)
          IN  IF out = << >>
              THEN /\ resp' = [op |-> "addReply", postId |-> 1, userId |-> 0,
                               params |-> [reply |-> reply],
                               res |-> Res(FALSE, "", "ValidationError", 0),
                               data |-> << >>]
                   /\ streak' = NoCalls
                   /\ UNCHANGED posts
              ELSE /\ resp' = [op |-> "addReply", postId |-> 1, userId |-> 0,
                               params |-> [reply |-> reply],
                               res |-> Res(TRUE, "", "", 0),
                               data |-> out]
                   /\ streak' = [replyId |-> id, count |-> 1]
                   /\ posts' = [posts EXCEPT ![1] = out[1]]
    /\ UNCHANGED << users, req >>

RemoveReply ==
    /\ \E replyId \in ReplyIds :
          LET out == removeReply(posts[1], replyId)
          IN  /\ resp' = [op |-> "removeReply", postId |-> 1, userId |-> 0,
                          params |-> [replyId |-> replyId],
                          res |-> Res(TRUE, "", "", 0),
                          data |-> out]
              /\ streak' = IF streak.count = 1 /\ streak.replyId = replyId
                           THEN [streak EXCEPT !.count = 2]
                           ELSE NoCalls
              /\ posts' = [posts EXCEPT ![1] = out[1]]
    /\ UNCHANGED << users, req >>

ReplyNext == AddReply \/ RemoveReply

ReplySpec == ReplyInit /\ [][ReplyNext]_vars

\* ------------------------------------------- specification: pagination
\* One call of getPaginatedPosts on a store of posts.
NumPagePosts == 3
MaxPage == 3
MaxLimit == 2

PageStores ==
    {[i \in 1..NumPagePosts |->
         feedPost(i, IF i = 1 THEN "Denver" ELSE "Austin", isActive[i], likes[i])] :
        isActive \in [1..NumPagePosts -> BOOLEAN],
        likes \in [1..NumPagePosts -> LikeChoices]}

PageInit ==
    /\ users = [u \in UserIds |->
                  [isActive |-> TRUE, postsCount |-> 0, city |-> "Austin"]]
    /\ posts \in PageStores
    /\ req = [r \in ReqIds |-> IdleReq]
    /\ resp = NoResponse
    /\ streak = NoStreak

\* The filters a caller passes: the feed's filter without parameters, the
\* same for one city, and the filter of the deactivated posts.
PageFilters ==
    {buildFilter(DefaultQuery),
     buildFilter([DefaultQuery EXCEPT !.city = "Austin"]),
     [buildFilter(DefaultQuery) EXCEPT !.isActive = FALSE]}

PageOptions ==
    [page : 1..MaxPage, limit : 1..MaxLimit,
     sortBy : {"newest", "oldest", "mostLiked"}]

GetPaginatedPosts ==
    \E filter \in PageFilters, options \in PageOptions :
        LET result == getPaginatedPosts(filter, options, posts)
        IN  /\ resp' = [op |-> "paginated", postId |-> 0, userId |-> 0,
                        params |-> [filter |-> filter, options |-> options],
                        res |-> NoRes,
                        data |-> << result.posts, result.pagination >>]
            /\ UNCHANGED << users, posts, req, streak >>

PageNext == FirstQuery /\ GetPaginatedPosts

PageSpec == PageInit /\ [][PageNext]_vars

\* --------------------------------------- specification: authentication
\* authenticateUser (auth.service) on the User collection, which this
\* specification keeps as the sequence of the user documents in the order
\* of their creation; a user's identifier is its place in the sequence.
MaxAccounts == 2

\* userSchema.email: lowercase and trim, applied to the value of a new
\* document and to the value of a query filter.
emailSetter(email) ==
    IF email \in {"A@x.io", " a@x.io"} THEN "a@x.io" ELSE email

\* The match expression of userSchema.email
emailRegexTest(email) == email \in {"a@x.io", "b@x.io", "A@x.io"}

\* password.length < 6
shorterThanSix(password) == password \in {"", "short"}

\* bcrypt.hash(password, salt) in userSchema.pre('save')
bcryptHash(password) == << "bcrypt", password >>

\* userSchema.methods.comparePassword: bcrypt.compare
comparePassword(candidatePassword, hashed) ==
    hashed = bcryptHash(candidatePassword)

\* jwt.sign({ userId }, JWT_SECRET)
generateToken(userId) == << "jwt", userId >>

\* userSchema: the messages of the validators that fail for a new user
userValidationErrors(doc) ==
    (IF doc.email = "" THEN << "Email is required" >>
     ELSE IF ~emailRegexTest(doc.email)
          THEN << "Please enter a valid email" >>
          ELSE << >>)
    \o (IF doc.password = "" THEN << "Password is required" >>
        ELSE IF shorterThanSix(doc.password)
             THEN << "Password must be at least 6 characters" >>
             ELSE << >>)

\* newUser.save() on a collection without the unique index on email
userSaveNoUniqueIndex(doc, us) ==
    IF userValidationErrors(doc) # << >>
    THEN [error |-> "ValidationError", users |-> us]
    ELSE [error |-> "",
          users |-> Append(us, [doc EXCEPT
                                  !.password = bcryptHash(doc.password)])]

\* newUser.save(): validation, the pre('save') hook that hashes the
\* password, and the insert, which the unique index on email refuses
\* (code 11000) when a stored user has the email.
userSave(doc, us) ==
    IF userValidationErrors(doc) # << >>
    THEN [error |-> "ValidationError", users |-> us]
    ELSE IF \E u \in DOMAIN us : us[u].email = doc.email
    THEN [error |-> "11000", users |-> us]
    ELSE [error |-> "",
          users |-> Append(us, [doc EXCEPT
                                  !.password = bcryptHash(doc.password)])]

\* The result of authenticateUser: data is << token, isNewUser >> or << >>.
AuthResponse(userId, auth, res, data) ==
    [op |-> "auth", postId |-> 0, userId |-> userId, params |-> auth,
     res |-> res, data |-> data]

\* authenticateUser up to User.findOne and, for a stored user, to its
\* result; for an email not found the new User document is made.
AuthFind(r, email, password) ==
    /\ FreeSlot(r)
    /\ LET auth == [email |-> email, password |-> password]
           found == {u \in DOMAIN users : users[u].email = emailSetter(email)}
       IN  IF found # {}
           THEN LET existingUser == CHOOSE u \in found : \A v \in found : u <= v
                IN  /\ resp' =
                         IF ~comparePassword(password, users[existingUser].password)
                         THEN AuthResponse(existingUser, auth,
                                  Res(FALSE, "Invalid credentials",
                                      "Incorrect password", 0), << >>)
                         ELSE IF ~users[existingUser].isActive
                         THEN AuthResponse(existingUser, auth,
                                  Res(FALSE, "Account is deactivated",
                                      "Account status inactive", 0), << >>)
                         ELSE AuthResponse(existingUser, auth,
                                  Res(TRUE, "Login successful", "", 0),
                                  << generateToken(existingUser), FALSE >>)
                    /\ UNCHANGED req
           ELSE /\ Len(users)
                     + Cardinality({q \in ReqIds : req[q].pc = "signup"})
                   < MaxAccounts
                /\ req' = [req EXCEPT ![r] =
                       [IdleReq EXCEPT
                          !.pc = "signup", !.kind = "auth",
                          !.doc = << [email |-> emailSetter(email),
                                      password |-> password,
                                      isActive |-> TRUE, postsCount |-> 0,
                                      city |-> ""],
                                     auth >>]]
                /\ resp' = NoResponse
    /\ UNCHANGED << users, posts, streak >>

\* authenticateUser from newUser.save() to its result.
AuthSave(r) ==
    /\ req[r].pc = "signup"
    /\ LET newUser == req[r].doc[1]
           auth == req[r].doc[2]
           out == userSave(newUser, users)
       IN  /\ users' = out.users
           /\ resp' =
                IF out.error = "11000"
                THEN AuthResponse(0, auth,
                         Res(FALSE, "Email already exists", "Duplicate email", 0),
                         << >>)
                ELSE IF out.error = "ValidationError"
                THEN AuthResponse(0, auth,
                         Res(FALSE, "Validation failed",
                             userValidationErrors(newUser)[1], 0), << >>)
                ELSE AuthResponse(Len(out.users), auth,
                         Res(TRUE, "Account created successfully", "", 0),
                         << generateToken(Len(out.users)), TRUE >>)
    /\ req' = [req EXCEPT ![r] = IdleReq]
    /\ UNCHANGED << posts, streak >>

\* No user, or one user with a deactivated or an active account.
AuthInit ==
    /\ users \in {<< >>}
                \cup {<< [email |-> "a@x.io",
                          password |-> bcryptHash("secret1"),
                          isActive |-> isActive, postsCount |-> 0,
                          city |-> "Austin"] >> : isActive \in BOOLEAN}
    /\ posts = << >>
    /\ req = [r \in ReqIds |-> IdleReq]
    /\ resp = NoResponse
    /\ streak = NoStreak

EmailInputs == {"a@x.io", "A@x.io", "b@x.io", "bad"}

PasswordInputs == {"secret1", "secret2", "short"}

Authenticate ==
    \E r \in ReqIds, email \in EmailInputs, password \in PasswordInputs :
        AuthFind(r, email, password)

SignUp == \E r \in ReqIds : AuthSave(r)

AuthNext == Authenticate \/ SignUp

AuthSpec == AuthInit /\ [][AuthNext]_vars

\* ----------------------------------------------------------- properties
PostIds == 1..Len(posts)

\* The pair of lists of a post document.
Lists(doc) == << doc.likes, doc.dislikes >>

\* The step of request r that saves successfully.
SavedStep(r) == req[r].pc = "loaded" /\ req'[r].pc = "saved"

\* The step of request r that attempts its save, successfully or not.
SaveAttempt(r) == req[r].pc = "loaded" /\ req'[r].pc # "loaded"

\* The step in which request slot r loads a post.
LoadStep(r) == req[r].pc = "idle" /\ req'[r].pc = "loaded"

\* A step of the toggle endpoints that answers from the findById read.
FindAnswer ==
    /\ req' = req
    /\ resp'.op \in {"like", "dislike"}

Odd(n) == n % 2 = 1

\* C1: in every persisted state, with toggle requests interleaving in any
\* way, no user is in both the likes and the dislikes list of a post.
C1_NeverLikedAndDisliked ==
    \A p \in PostIds, u \in UserIds :
        ~(isLikedBy(posts[p], u) /\ isDislikedBy(posts[p], u))

\* A like and a dislike of the same user on the same post overlapped: one
\* is saved and not yet answered, the other was just refused in its save.
C1_Witness ==
    \E r \in ReqIds :
        /\ req[r].pc = "saved"
        /\ resp.res.status = 500
        /\ resp.postId = req[r].postId
        /\ resp.userId = req[r].userId
        /\ resp.op \in {"like", "dislike"} \ {req[r].kind}

\* C2: with one request at a time, no user is ever in both lists of a post,
\* and a toggle that adds the user to one list leaves the user out of the
\* opposing list in the same save.
C2_AddRemovesOpposite ==
    [][ /\ \A p \in 1..Len(posts'), u \in UserIds :
              ~(isLikedBy(posts'[p], u) /\ isDislikedBy(posts'[p], u))
        /\ \A r \in ReqIds :
              LET q == req[r] IN
              SavedStep(r) =>
                /\ (q.kind = "like" /\ ~isLikedBy(posts[q.postId], q.userId))
                     => /\ isLikedBy(posts'[q.postId], q.userId)
                        /\ ~isDislikedBy(posts'[q.postId], q.userId)
                /\ (q.kind = "dislike" /\ ~isDislikedBy(posts[q.postId], q.userId))
                     => /\ isDislikedBy(posts'[q.postId], q.userId)
                        /\ ~isLikedBy(posts'[q.postId], q.userId) ]_vars

\* A like by a user who disliked the post has been saved.
C2_Witness ==
    \E r \in ReqIds :
        /\ req[r].pc = "saved"
        /\ req[r].kind = "like"
        /\ isDislikedBy(req[r].doc[1], req[r].userId)
        /\ isLikedBy(posts[req[r].postId], req[r].userId)
        /\ ~isDislikedBy(posts[req[r].postId], req[r].userId)

\* C3: a successful createPost raises the author's postsCount by exactly 1.
C3_CreateIncrementsPostsCount ==
    [][ (resp'.op = "create" /\ resp'.res.success)
          => users'[resp'.userId].postsCount
               = users[resp'.userId].postsCount + 1 ]_vars

\* C4: when two toggle requests on one post overlap (both read the same
\* stored document, one has saved, the other now attempts its save), the
\* persisted lists after the second attempt are those of the two toggles
\* executed one after the other in some order.
C4_OverlapIsSerial ==
    [][ \A r, r2 \in ReqIds :
          LET q == req[r]
              q2 == req[r2]
              s0 == q.doc[1]
              one(kind, doc, userId) == preSave(toggled(kind, doc, userId))
          IN  ( /\ r # r2
                /\ SaveAttempt(r)
                /\ q2.pc = "saved"
                /\ q2.postId = q.postId
                /\ q2.doc = q.doc
                /\ posts[q.postId].v = s0.v + 1 )
              => Lists(posts'[q.postId]) \in
                   { Lists(one(q.kind, one(q2.kind, s0, q2.userId), q.userId)),
                     Lists(one(q2.kind, one(q.kind, s0, q.userId), q2.userId)) } ]_vars

\* C5 as stated: after an odd number of successful togglePostLike(P,U) in a
\* row, from any starting state, U is in likes(P) and not in dislikes(P).
C5_OddLikesFromAnyState ==
    (streak.count > 0 /\ Odd(streak.count))
      => /\ isLikedBy(posts[streak.postId], streak.userId)
         /\ ~isDislikedBy(posts[streak.postId], streak.userId)

\* C5 amended: the same, from a starting state in which U is not in likes(P).
C5_OddLikesFromNotLiked ==
    (streak.count > 0 /\ Odd(streak.count) /\ ~streak.likedBefore)
      => /\ isLikedBy(posts[streak.postId], streak.userId)
         /\ ~isDislikedBy(posts[streak.postId], streak.userId)

\* Three likes in a row by a user who did not like the post before.
C5_Witness ==
    /\ streak.count = 3
    /\ ~streak.likedBefore
    /\ isLikedBy(posts[streak.postId], streak.userId)

\* C6: after an even number of successful togglePostLike(P,U) in a row, U is
\* in likes(P) exactly if U was before the first call.
C6_EvenLikesRestore ==
    (streak.count > 0 /\ ~Odd(streak.count))
      => (isLikedBy(posts[streak.postId], streak.userId) <=> streak.likedBefore)

\* Two likes in a row have been saved.
C6_Witness == streak.count = 2

\* C7: a successful togglePostLike(P,U) flips U's membership in likes(P) and
\* leaves U out of dislikes(P); togglePostDislike likewise, lists exchanged.
C7_OneFlipPerToggle ==
    [][ \A r \in ReqIds :
          LET q == req[r] IN
          SavedStep(r) =>
            /\ q.kind = "like"
                 => /\ isLikedBy(posts'[q.postId], q.userId)
                         <=> ~isLikedBy(posts[q.postId], q.userId)
                    /\ ~isDislikedBy(posts'[q.postId], q.userId)
            /\ q.kind = "dislike"
                 => /\ isDislikedBy(posts'[q.postId], q.userId)
                         <=> ~isDislikedBy(posts[q.postId], q.userId)
                    /\ ~isLikedBy(posts'[q.postId], q.userId) ]_vars

\* A dislike has been toggled off.
C7_Witness ==
    \E r \in ReqIds :
        /\ req[r].pc = "saved"
        /\ req[r].kind = "dislike"
        /\ req[r].flag
        /\ ~isDislikedBy(posts[req[r].postId], req[r].userId)

\* C8: togglePostDislike(P,U) with U in likes(P) and not in dislikes(P) moves
\* U in one save: the likes count falls by 1, the dislikes count rises by 1.
C8_DislikeAfterLike ==
    [][ \A r \in ReqIds :
          LET q == req[r] IN
          ( /\ SavedStep(r)
            /\ q.kind = "dislike"
            /\ isLikedBy(posts[q.postId], q.userId)
            /\ ~isDislikedBy(posts[q.postId], q.userId) )
          => /\ ~isLikedBy(posts'[q.postId], q.userId)
             /\ isDislikedBy(posts'[q.postId], q.userId)
             /\ Len(posts'[q.postId].likes) = Len(posts[q.postId].likes) - 1
             /\ Len(posts'[q.postId].dislikes)
                  = Len(posts[q.postId].dislikes) + 1
             /\ posts'[q.postId].v = posts[q.postId].v + 1 ]_vars

\* A dislike by a user who liked the post has been saved.
C8_Witness ==
    \E r \in ReqIds :
        /\ req[r].pc = "saved"
        /\ req[r].kind = "dislike"
        /\ isLikedBy(req[r].doc[1], req[r].userId)
        /\ isDislikedBy(posts[req[r].postId], req[r].userId)

\* C9: a toggle on a post that is missing or inactive is answered with a
\* failure and 404 and changes no post, a malformed identifier with a
\* failure and 400; no request loads a missing or inactive post.
C9_MissingInactiveMalformed ==
    [][ /\ FindAnswer =>
             /\ ~resp'.res.success
             /\ posts' = posts
             /\ resp'.postId = 0 => resp'.res.status = 400
             /\ resp'.postId > Len(posts) => resp'.res.status = 404
             /\ (resp'.postId \in PostIds /\ ~posts[resp'.postId].isActive)
                  => resp'.res.status = 404
             /\ resp'.res.status \in {400, 404}
        /\ \A r \in ReqIds :
             LoadStep(r) => /\ req'[r].postId \in PostIds
                            /\ posts[req'[r].postId].isActive ]_vars

\* A toggle on an inactive post has just been refused.
C9_Witness ==
    /\ resp.op \in {"like", "dislike"}
    /\ resp.postId \in PostIds
    /\ ~posts[resp.postId].isActive
    /\ resp.res.error = "Post inactive"
    /\ resp.res.status = 404

\* C10: in every persisted state, with toggle requests interleaving in any
\* way, each user is at most once in the likes list and at most once in the
\* dislikes list of a post.
C10_NoDuplicates ==
    \A p \in PostIds :
        /\ Cardinality(toSet(posts[p].likes)) = Len(posts[p].likes)
        /\ Cardinality(toSet(posts[p].dislikes)) = Len(posts[p].dislikes)

\* Two likes of the same user on the same post overlapped: one is saved and
\* not yet answered, the other was just refused in its save.
C10_Witness ==
    \E r \in ReqIds :
        /\ req[r].pc = "saved"
        /\ req[r].kind = "like"
        /\ resp.res.status = 500
        /\ resp.op = "like"
        /\ resp.postId = req[r].postId
        /\ resp.userId = req[r].userId
        /\ Len(posts[req[r].postId].likes) = 1

\* The posts of a successful feed response, by their numbers.
FeedAnswered == resp.op \in {"feed", "homeFeed"} /\ resp.res.success

feedPosts == resp.data[1]

likeCount(i) == Len(posts[i].likes)

\* C11: a feed query with sortBy=mostLiked returns the posts in
\* non-increasing order of like count (the length of the likes list), and
\* posts of equal like count in non-increasing order of creation time.
C11_MostLikedByCount ==
    (FeedAnswered /\ resp.params.sortBy = "mostLiked")
      => \A k \in 1..(Len(feedPosts) - 1) :
            \/ likeCount(feedPosts[k]) > likeCount(feedPosts[k + 1])
            \/ /\ likeCount(feedPosts[k]) = likeCount(feedPosts[k + 1])
               /\ feedPosts[k] > feedPosts[k + 1]

\* C12: a home-feed call of an active user U that supplies no city returns
\* only posts whose city is U's stored city, whatever U's stored city is.
C12_HomeFeedOnlyOwnCity ==
    ( /\ resp.op = "homeFeed"
      /\ resp.res.success
      /\ resp.params.city = ""
      /\ resp.userId \in UserIds )
    => /\ users[resp.userId].isActive
       /\ \A k \in 1..Len(feedPosts) :
             posts[feedPosts[k]].city = users[resp.userId].city

\* The query without its malformed author and its invalid search pattern.
withoutInvalid(queryParams) ==
    [queryParams EXCEPT
        !.author = IF @ = MalformedUserId THEN NoAuthor ELSE @,
        !.search = IF invalidRegex(trim(@)) THEN "" ELSE @]

\* C13: a feed query whose author is no well-formed identifier, or whose
\* search is no valid pattern, succeeds, and the field places no constraint:
\* the result is that of the query without the field.
C13_InvalidFilterIsNoFilter ==
    ( /\ resp.op = "feed"
      /\ resp.params # withoutInvalid(resp.params) )
    => /\ resp.res.success
       /\ resp.data = getPostsFeed(withoutInvalid(resp.params), posts, FALSE).data

\* C15: no post with isActive=false is in the result of getPostsFeed or
\* getUserCityFeed, whatever the filters and the sort option are.
C15_NoInactivePostInFeed ==
    FeedAnswered => \A k \in 1..Len(feedPosts) : posts[feedPosts[k]].isActive

\* A feed query with a city and the sort option mostLiked returned a post,
\* and the store holds a soft-removed post of that city.
C15_Witness ==
    /\ resp.op = "feed"
    /\ resp.res.success
    /\ resp.params.city # "" /\ resp.params.sortBy = "mostLiked"
    /\ Len(feedPosts) >= 1
    /\ \E p \in PostIds :
          /\ ~posts[p].isActive
          /\ matchesFilterAnyActive(posts[p], buildFilter(resp.params))

\* C14: after any sequence of post creations and hard deletions, every
\* user's postsCount is greater than or equal to 0.
C14_PostsCountNotNegative == \A u \in UserIds : users[u].postsCount >= 0

\* A create-post request was answered by the step.
CreateAnswer == resp'.op = "create"

\* The body's type is known, its city is given, its image file, if any, is
\* stored under a URL of the schema's pattern.
RestIsValid(body) ==
    /\ body.postType \in PostTypeValues
    /\ body.city # ""
    /\ body.file \in {"none", "jpg"}

\* C16: create post accepts content of trimmed length 280 and rejects
\* content of trimmed length 281 or more, and content that trims to nothing,
\* with a validation failure (400); a rejected create persists no post and
\* changes no user's postsCount.
C16_LengthBoundary ==
    [][ CreateAnswer =>
          LET body == resp'.params
              author == resp'.userId
          IN  /\ (body.contentLen = 0 \/ body.contentLen >= 281)
                    => /\ ~resp'.res.success
                       /\ resp'.res.status = 400
              /\ ( /\ body.contentLen = 280
                   /\ RestIsValid(body)
                   /\ author \in UserIds
                   /\ users[author].isActive )
                    => /\ resp'.res.success
                       /\ Len(posts') = Len(posts) + 1
                       /\ posts'[Len(posts')].contentLen = 280
                       /\ posts'[Len(posts')].author = author
              /\ ~resp'.res.success
                    => /\ posts' = posts
                       /\ users' = users ]_vars

\* Content of 281 characters, with a known type, has just been rejected
\* after a post was created and removed.
C16_Witness ==
    /\ resp.op = "create"
    /\ resp.params.contentLen = 281
    /\ resp.params.postType \in PostTypeValues
    /\ resp.res.status = 400
    /\ resp.res.error = "Content too long"
    /\ \E u \in UserIds : users[u].postsCount < 0

\* C17: the create-post endpoint answers 201 on success, 400 on every
\* validation failure (empty or over-long content, unknown type, missing
\* city, image URL not of the pattern), 404 when the author does not exist,
\* 403 when the author is inactive; no validation failure is answered 500.
C17_CreateStatus ==
    resp.op = "create" =>
      LET body == resp.params
          author == resp.userId
          status == resp.res.status
          contentFailure == body.contentLen = 0 \/ body.contentLen > 280
          typeFailure == body.postType \notin PostTypeValues
          documentFailure == body.city = "" \/ body.file = "bmp"
          failure == contentFailure \/ typeFailure \/ documentFailure
          reachesService ==
              ~contentFailure /\ ~typeFailure /\ body.file # "rejected"
      IN  /\ resp.res.success <=> status = 201
          /\ (contentFailure \/ typeFailure) => status = 400
          /\ (documentFailure /\ author \in UserIds /\ users[author].isActive)
                => status = 400
          /\ (reachesService /\ author \notin UserIds
                 /\ author # MalformedUserId)
                => status = 404
          /\ (reachesService /\ author \in UserIds /\ ~users[author].isActive)
                => status = 403
          /\ failure => status \in {400, 403, 404}
          /\ (~failure /\ reachesService /\ author \in UserIds
                 /\ users[author].isActive)
                => status = 201

\* A body with no city and an image stored as .bmp, sent by an active
\* user, has just been answered 400 'Validation failed'.
C17_Witness ==
    /\ resp.op = "create"
    /\ resp.params.city = ""
    /\ resp.params.file = "bmp"
    /\ resp.userId \in UserIds
    /\ resp.res.message = "Validation failed"
    /\ resp.res.status = 400

\* C18: on every save of a post, whatever the likes and dislikes lists in
\* memory were before the save (lists that share users included), the
\* persisted likes and dislikes lists have no user in common.
C18_PersistedListsDisjoint ==
    [][ \A r \in ReqIds :
          (req[r].pc = "assigned" /\ req'[r].pc = "persisted")
            => toSet(posts'[req[r].postId].likes)
                 \cap toSet(posts'[req[r].postId].dislikes) = {} ]_vars

\* A document whose lists in memory shared a user was saved, and a
\* persisted list still holds a user.
C18_Witness ==
    \E r \in ReqIds :
        /\ req[r].pc = "persisted"
        /\ toSet(req[r].doc[2].likes) \cap toSet(req[r].doc[2].dislikes) # {}
        /\ \/ posts[req[r].postId].likes # << >>
           \/ posts[req[r].postId].dislikes # << >>

\* C20: every result of createPost, togglePostLike, togglePostDislike,
\* getPostsFeed and getUserCityFeed, for every input and every failure of
\* the store, has the shape {success, message, data?, error?}: the call
\* returns a result (it does not raise), a result with success=false carries
\* an error and no data, a result with success=true carries data.
C20_ResultShape ==
    resp.op # "none" =>
      /\ resp.res.message # ""
      /\ resp.res.success => (resp.data # << >> /\ resp.res.error = "")
      /\ ~resp.res.success => (resp.data = << >> /\ resp.res.error # "")

\* A feed query on a store with a post has just failed in the service.
C20_Witness ==
    /\ resp.op = "feed"
    /\ ~resp.res.success
    /\ resp.res.error = "Something went wrong"
    /\ resp.data = << >>
    /\ Len(posts) >= 1

\* C21: the home feed of a user that does not exist is answered with a
\* not-found failure (404), that of a user with isActive=false with a
\* forbidden failure (403); in both cases no feed query runs (a failing
\* store does not change the answer) and no posts are returned.
C21_HomeFeedMissingInactive ==
    (resp.op = "homeFeed" /\ resp.userId # MalformedUserId) =>
      /\ resp.userId \notin UserIds
           => /\ resp.res = Res(FALSE, "User not found",
                                "User does not exist", 404)
              /\ resp.data = << >>
      /\ (resp.userId \in UserIds /\ ~users[resp.userId].isActive)
           => /\ resp.res = Res(FALSE, "Account is deactivated",
                                "Account status inactive", 403)
              /\ resp.data = << >>

\* The home feed of the deactivated user has just been refused while the
\* store holds an active post.
C21_Witness ==
    /\ resp.op = "homeFeed"
    /\ resp.userId \in UserIds
    /\ ~users[resp.userId].isActive
    /\ resp.res.status = 403
    /\ \E p \in PostIds : posts[p].isActive

\* C24: a feed query with sortBy absent or newest returns the posts in
\* non-increasing order of creation time, with sortBy=oldest in
\* non-decreasing order of creation time (posts are numbered in creation
\* order).
C24_NewestOldestOrder ==
    FeedAnswered =>
      /\ resp.params.sortBy \in {"", "newest"}
           => \A k \in 1..(Len(feedPosts) - 1) : feedPosts[k] >= feedPosts[k + 1]
      /\ resp.params.sortBy = "oldest"
           => \A k \in 1..(Len(feedPosts) - 1) : feedPosts[k] <= feedPosts[k + 1]

\* A query with sortBy=oldest returned two posts, the more liked one last.
C24_Witness ==
    /\ FeedAnswered
    /\ resp.params.sortBy = "oldest"
    /\ Len(feedPosts) >= 2
    /\ likeCount(feedPosts[1]) < likeCount(feedPosts[2])

\* The call of getPaginatedPosts that was answered, and what it matched.
Paginated == resp.op = "paginated"

pageOptions == resp.params.options

pagination == resp.data[2]

matching ==
    {i \in PostIds : matchesFilter(posts[i], resp.params.filter)}

allSorted == sorted(matching, pageOptions.sortBy, posts)

\* C22: for page >= 1 and limit > 0 getPaginatedPosts returns exactly the
\* elements at positions [(page-1)*limit, page*limit) of the filtered,
\* sorted result (fewer when the result ends earlier, none when the page is
\* past the end); totalPosts is the number of matching posts and totalPages
\* is ceil(totalPosts / limit).
C22_PageSlice ==
    (Paginated /\ pageOptions.page >= 1 /\ pageOptions.limit > 0) =>
      LET first == (pageOptions.page - 1) * pageOptions.limit
          last == pageOptions.page * pageOptions.limit
          inPage == {k \in 1..Len(allSorted) : first < k /\ k <= last}
      IN  /\ Len(feedPosts) = Cardinality(inPage)
          /\ \A k \in 1..Len(feedPosts) : feedPosts[k] = allSorted[first + k]
          /\ pagination.totalPosts = Cardinality(matching)
          /\ pagination.totalPages * pageOptions.limit >= pagination.totalPosts
          /\ (pagination.totalPages - 1) * pageOptions.limit < pagination.totalPosts
          /\ pagination.totalPages >= 0

\* Page 2 of a result of three posts with limit 2: one post, the last.
C22_Witness ==
    /\ Paginated
    /\ pageOptions.page = 2 /\ pageOptions.limit = 2
    /\ Len(allSorted) = 3
    /\ feedPosts = << allSorted[3] >>
    /\ pagination.totalPages = 2

\* C23: hasNext is true exactly when matching posts exist at positions
\* >= page*limit (page*limit < totalPosts), and hasPrev exactly when
\* page > 1.
C23_HasNextHasPrev ==
    (Paginated /\ pageOptions.page >= 1 /\ pageOptions.limit > 0) =>
      /\ pagination.hasNext
           <=> pageOptions.page * pageOptions.limit < pagination.totalPosts
      /\ pagination.hasNext
           <=> \E k \in 1..Len(allSorted) : k > pageOptions.page * pageOptions.limit
      /\ pagination.hasPrev <=> pageOptions.page > 1

\* The last page of a result that fills it: a previous page and no next one.
C23_Witness ==
    /\ Paginated
    /\ pageOptions.page = 2 /\ pageOptions.limit = 1
    /\ pagination.totalPosts = 2
    /\ ~pagination.hasNext /\ pagination.hasPrev

\* The replies of the post of the reply specification.
replies == posts[1].replies

\* A step of a successful addReply / of removeReply.
AddReplyStep == resp'.op = "addReply" /\ resp'.res.success /\ resp' # resp

RemoveReplyStep == resp'.op = "removeReply"

\* seq without its element at position k
without(seq, k) ==
    [j \in 1..(Len(seq) - 1) |-> IF j < k THEN seq[j] ELSE seq[j + 1]]

\* What a step of addReply, and a step of removeReply with the identity of
\* the reply the preceding addReply call returned, do to the replies.
AddsThenRemoves ==
    /\ AddReplyStep =>
          /\ Len(replies') = Len(replies) + 1
          /\ \A k \in 1..Len(replies) : replies'[k] = replies[k]
          /\ replies'[Len(replies')].id \notin replyIdsOf(posts[1])
          /\ streak'.replyId = replies'[Len(replies')].id
    /\ (RemoveReplyStep /\ streak.count = 1
          /\ resp'.params.replyId = streak.replyId) =>
          /\ Len(replies) >= 1
          /\ replies' = SubSeq(replies, 1, Len(replies) - 1)
          /\ streak'.count = 2

\* A step of removeReply removes the one reply that matches, if any.
RemovesMatch ==
    RemoveReplyStep =>
      LET replyId == resp'.params.replyId
          at == {k \in 1..Len(replies) : replies[k].id = replyId}
      IN  /\ resp'.res.success
          /\ at = {} => replies' = replies
          /\ \A k \in at : replies' = without(replies, k)

\* C25: addReply gives the new reply an identity that no reply already in
\* the post has and puts it after the replies the post had; removeReply
\* with that identity immediately afterwards removes the new reply alone,
\* which leaves the reply sequence the post had before the addReply call.
C25_AddThenRemoveReply == [][AddsThenRemoves]_vars

\* removeReply was called with the identity of the reply the preceding
\* addReply call added to a post that already had a reply.
C25_Witness ==
    /\ resp.op = "removeReply"
    /\ streak.count = 2 /\ streak.replyId = resp.params.replyId
    /\ Len(replies) >= 1

\* C26: removeReply with a replyId that matches no reply of the post
\* succeeds and leaves the reply sequence unchanged; with a matching replyId
\* it removes exactly that reply and keeps the order of the others.
C26_RemoveReply == [][RemovesMatch]_vars

\* removeReply removed the first of two replies.
C26_Witness ==
    /\ resp.op = "removeReply" /\ resp.res.success
    /\ Len(replies) = 1
    /\ resp.params.replyId < replies[1].id
    /\ streak.count = 0

\* C27 as stated: a successful togglePostLike reports 'liked' exactly when
\* the caller is in the post's likes after the call and 'unliked' exactly
\* when the caller is not; togglePostDislike reports 'disliked' /
\* 'undisliked' the same way for the dislikes.
C27_MessageIsMembershipAfterCall ==
    (resp.op \in {"like", "dislike"} /\ resp.res.success) =>
      LET doc == posts[resp.postId]
          message == resp.res.message
      IN  /\ resp.op = "like" =>
                (message = "Post liked successfully"
                   <=> isLikedBy(doc, resp.userId))
          /\ resp.op = "dislike" =>
                (message = "Post disliked successfully"
                   <=> isDislikedBy(doc, resp.userId))

\* The save of a toggle request and its answer: the answer is taken from
\* the membership that the request's own save has written.
ReportsSavedMembership ==
    \A r \in ReqIds :
        LET q == req[r] IN
        /\ SavedStep(r) =>
              /\ q.kind = "like" =>
                    (req'[r].flag <=> ~isLikedBy(posts'[q.postId], q.userId))
              /\ q.kind = "dislike" =>
                    (req'[r].flag <=> ~isDislikedBy(posts'[q.postId], q.userId))
        /\ (q.pc = "saved" /\ req'[r].pc = "idle") =>
              /\ resp'.res.success
              /\ resp'.userId = q.userId /\ resp'.postId = q.postId
              /\ resp'.res.message =
                    (IF q.kind = "like"
                     THEN IF q.flag THEN "Post unliked successfully"
                          ELSE "Post liked successfully"
                     ELSE IF q.flag THEN "Post undisliked successfully"
                          ELSE "Post disliked successfully")

\* C27 (amended): a successful togglePostLike reports 'liked' exactly when
\* the caller is in the post's likes right after the call's own save and
\* 'unliked' exactly when the caller is not; togglePostDislike reports
\* 'disliked' / 'undisliked' the same way for the dislikes.
C27_MessageIsSavedMembership == [][ReportsSavedMembership]_vars

\* A like was answered with 'liked' after a later request of the same user
\* had removed it.
C27_Witness ==
    /\ resp.op = "like"
    /\ resp.res.message = "Post liked successfully"
    /\ ~isLikedBy(posts[resp.postId], resp.userId)

\* The fields of a post document other than its two lists and its version.
rest(doc) == [doc EXCEPT !.likes = << >>, !.dislikes = << >>, !.v = 0]

\* What the save of request r leaves as it was.
SaveFrame(r) ==
    LET q == req[r] IN
    /\ \A u \in UserIds \ {q.userId} :
          /\ isLikedBy(posts'[q.postId], u) <=> isLikedBy(posts[q.postId], u)
          /\ isDislikedBy(posts'[q.postId], u)
                <=> isDislikedBy(posts[q.postId], u)
    /\ rest(posts'[q.postId]) = rest(posts[q.postId])
    /\ Len(posts') = Len(posts)
    /\ \A p \in PostIds \ {q.postId} : posts'[p] = posts[p]
    /\ \A u \in UserIds : users'[u].postsCount = users[u].postsCount

\* The steps of a toggle request: its read and its answer change no post
\* and no user, its save only what SaveFrame allows.
ToggleFrame ==
    \A r \in ReqIds :
        /\ SavedStep(r) => SaveFrame(r)
        /\ (LoadStep(r) \/ (req[r].pc = "saved" /\ req'[r].pc = "idle"))
              => (posts' = posts /\ users' = users)

\* C28: a successful togglePostLike(P,U) or togglePostDislike(P,U) changes
\* only U's membership in likes(P) and dislikes(P): the membership of every
\* other user in both lists, the other fields of P, every other post and
\* every user's postsCount stay as they were.
C28_ToggleFrame == [][ToggleFrame]_vars

\* The caller's like was saved on a post that another user dislikes.
C28_Witness ==
    \E r \in ReqIds :
        /\ req[r].pc = "saved" /\ req[r].kind = "like"
        /\ isLikedBy(posts[req[r].postId], req[r].userId)
        /\ \E u \in UserIds \ {req[r].userId} :
              isDislikedBy(posts[req[r].postId], u)

\* C29: when U is in dislikes(P), the first of two successful
\* togglePostLike(P,U) in a row moves U from the dislikes to the likes, and
\* the second removes U from the likes without restoring the dislike: U is
\* in neither list.
C29_TwoLikesAfterDislike ==
    (streak.count \in {1, 2} /\ streak.dislikedBefore) =>
      LET doc == posts[streak.postId] IN
      /\ streak.count = 1 =>
            isLikedBy(doc, streak.userId) /\ ~isDislikedBy(doc, streak.userId)
      /\ streak.count = 2 =>
            ~isLikedBy(doc, streak.userId) /\ ~isDislikedBy(doc, streak.userId)

\* The second like of a user who had disliked the post has been saved.
C29_Witness ==
    /\ streak.count = 2 /\ streak.dislikedBefore
    /\ ~isLikedBy(posts[streak.postId], streak.userId)

\* The stored users with the email of an authentication request.
usersWith(email, us) == {u \in DOMAIN us : us[u].email = emailSetter(email)}

\* What a step that answers an authentication request does.
AuthAnswer ==
    resp'.op = "auth" =>
      LET email == resp'.params.email
          password == resp'.params.password
          known == usersWith(email, users)
          token == resp'.data # << >>
          created == /\ known = {}
                     /\ Len(users') = Len(users) + 1
                     /\ \A u \in DOMAIN users : users'[u] = users[u]
                     /\ users'[Len(users')].email = emailSetter(email)
                     /\ resp'.data = << generateToken(Len(users')), TRUE >>
          loggedIn == /\ users' = users
                      /\ \E u \in known :
                            /\ comparePassword(password, users[u].password)
                            /\ users[u].isActive
                            /\ resp'.data = << generateToken(u), FALSE >>
      IN  /\ token => (resp'.res.success /\ (created \/ loggedIn))
          /\ resp'.res.success => token
          /\ (\E u \in known :
                 \/ ~comparePassword(password, users[u].password)
                 \/ ~users[u].isActive)
                => (~resp'.res.success /\ ~token /\ users' = users)
          /\ known # {} => users' = users
          /\ \A u, v \in DOMAIN users' :
                users'[u].email = users'[v].email => u = v

\* C30: authenticateUser issues a token only when the email is unseen and
\* a new user was created, or the email exists, the password matches and
\* the user is active; a wrong password or an inactive account yields a
\* failure without token and creates or changes no user; an attempt with
\* an email that already exists never creates a second user with it.
C30_TokenOnlyForSignUpOrLogin == [][AuthAnswer]_vars

\* A sign-up was refused because a request that started later had created
\* the user with the email in the meantime.
C30_Witness ==
    /\ resp.op = "auth"
    /\ resp.res.error = "Duplicate email"
    /\ resp.data = << >>
    /\ Cardinality(usersWith(resp.params.email, users)) = 1

====
